---- MODULE Spec2Model ----
(***************************************************************************)
(* Local Food Wastage Management System (app.py): the four tables of the   *)
(* SQLite database, the cached lookup of distinct filter values, the CRUD  *)
(* form handlers, the listings filter query and the aggregate reports.     *)
(*                                                                         *)
(* Text is a sequence of ASCII codes, so that SQL's LOWER, TRIM, the       *)
(* BINARY collation of ORDER BY and strftime's zero padding are computed   *)
(* and not assumed.  Opaque text that the program only stores or compares  *)
(* for equality (Type, Address, Contact, Food_Name, Provider_Type, Status, *)
(* the UI messages) is a TLA+ string.                                      *)
(*                                                                         *)
(* Every button press is one run of the script from its first line: the    *)
(* run reads the cached lookup (recomputing it when it was cleared), then  *)
(* reaches the handler of the pressed button.  Sessions run in threads of  *)
(* their own over the one connection get_conn caches                       *)
(* (check_same_thread=False), so the run of Add Claim is split where it    *)
(* reads its pick-lists and where it writes: the writes of other sessions  *)
(* fall in between.                                                        *)
(***************************************************************************)
EXTENDS Integers, Sequences, FiniteSets, TLC

VARIABLES providers, receivers, listings, claims, cache, run, msg

vars == <<providers, receivers, listings, claims, cache, run, msg>>
tables == <<providers, receivers, listings, claims>>

-----------------------------------------------------------------------------
(* Bounds of the model: the largest id a table may hold (and so its size). *)
MaxProviders == 2
MaxReceivers == 1
MaxListings == 2
MaxClaims == 2

-----------------------------------------------------------------------------
(* Text *)
Space == 32
Hyphen == 45
Colon == 58
Zero == 48

EmptyText == <<>>

\* "All", the sentinel of the sidebar select boxes
All == <<65, 108, 108>>

\* SQLite LOWER: ASCII upper-case letters only
LowerChar(c) == IF c >= 65 /\ c <= 90 THEN c + 32 ELSE c
LOWER(s) == [i \in 1..Len(s) |-> LowerChar(s[i])]

\* SQLite TRIM with one argument: removes spaces from both ends
RECURSIVE LTrim(_)
LTrim(s) == IF s # <<>> /\ Head(s) = Space THEN LTrim(Tail(s)) ELSE s
RECURSIVE RTrim(_)
RTrim(s) == IF s # <<>> /\ s[Len(s)] = Space THEN RTrim(SubSeq(s, 1, Len(s) - 1)) ELSE s
TRIM(s) == RTrim(LTrim(s))

\* BINARY collation (memcmp, the shorter text first when one is a prefix)
RECURSIVE TextLeq(_, _)
TextLeq(a, b) ==
    IF a = <<>> THEN TRUE
    ELSE IF b = <<>> THEN FALSE
    ELSE IF Head(a) # Head(b) THEN Head(a) < Head(b)
    ELSE TextLeq(Tail(a), Tail(b))

\* Python truthiness of a form value, as all([...]) tests it: of a text kept as
\* codes, and of an opaque text
FilledText(x) == Len(x) > 0
Filled(x) == x # ""

-----------------------------------------------------------------------------
(* Dates: a date widget yields [y, m, d]; strftime writes it as text. *)
Digit(n) == Zero + n
Pad2(n) == <<Digit(n \div 10), Digit(n % 10)>>
Pad4(n) == <<Digit(n \div 1000), Digit((n \div 100) % 10), Digit((n \div 10) % 10), Digit(n % 10)>>

\* The date written without the zero padding of month and day ("%Y-%-m-%-d")
Unpadded(n) == IF n < 10 THEN <<Digit(n)>> ELSE Pad2(n)
FormatDateUnpadded(dt) ==
    Pad4(dt.y) \o <<Hyphen>> \o Unpadded(dt.m) \o <<Hyphen>> \o Unpadded(dt.d)

\* date.strftime("%Y-%m-%d")
FormatDate(dt) == Pad4(dt.y) \o <<Hyphen>> \o Pad2(dt.m) \o <<Hyphen>> \o Pad2(dt.d)

\* The timestamp written day first ("%d-%m-%Y %H:%M:%S")
FormatTimestampDayFirst(dt) ==
    Pad2(dt.d) \o <<Hyphen>> \o Pad2(dt.m) \o <<Hyphen>> \o Pad4(dt.y)
    \o <<Space>> \o Pad2(0) \o <<Colon>> \o Pad2(0) \o <<Colon>> \o Pad2(0)

\* date.strftime("%Y-%m-%d %H:%M:%S"): a date has no time of day
FormatTimestamp(dt) ==
    FormatDate(dt) \o <<Space>> \o Pad2(0) \o <<Colon>> \o Pad2(0) \o <<Colon>> \o Pad2(0)

-----------------------------------------------------------------------------
(* Rows *)
RECURSIVE SetMax(_)
SetMax(S) ==
    IF S = {} THEN 0
    ELSE LET x == CHOOSE x \in S : TRUE
             m == SetMax(S \ {x})
         IN IF x > m THEN x ELSE m

\* The id SQLite gives a row inserted without one (every INSERT of the script
\* leaves the key column out): the largest in the table + 1
NextId(ids) == SetMax(ids) + 1

ProviderIds == {p.Provider_ID : p \in providers}
ReceiverIds == {r.Receiver_ID : r \in receivers}
FoodIds == {f.Food_ID : f \in listings}
ClaimIds == {c.Claim_ID : c \in claims}

-----------------------------------------------------------------------------
(* The cached lookup of distinct filter values *)
Cleared ==
    [valid |-> FALSE, cities |-> {}, providers |-> {}, food_types |-> {},
     meal_types |-> {}, provider_types |-> {}]

get_distinct_values ==
    [valid |-> TRUE,
     cities |-> {p.City : p \in providers} \cup {r.City : r \in receivers},
     providers |-> {p.Name : p \in providers},
     food_types |-> {f.Food_Type : f \in listings},
     meal_types |-> {f.Meal_Type : f \in listings},
     provider_types |-> {f.Provider_Type : f \in listings}]

\* What a run reads at its start: the cached value, computed when there is none
Lookup == IF cache.valid THEN cache ELSE get_distinct_values

\* The select boxes of Add Listing fall back on fixed lists when the lookup is empty
DefaultProviderTypes == {"Restaurant", "Grocery Store"}
DefaultFoodTypes ==
    {<<86,101,103,101,116,97,114,105,97,110>>,
     <<78,111,110,45,86,101,103,101,116,97,114,105,97,110>>,
     <<86,101,103,97,110>>}
DefaultMealTypes ==
    {<<66,114,101,97,107,102,97,115,116>>, <<76,117,110,99,104>>,
     <<68,105,110,110,101,114>>, <<83,110,97,99,107,115>>}
ProviderTypeOptions(view) ==
    IF view.provider_types # {} THEN view.provider_types ELSE DefaultProviderTypes
FoodTypeOptions(view) ==
    IF view.food_types # {} THEN view.food_types ELSE DefaultFoodTypes
MealTypeOptions(view) ==
    IF view.meal_types # {} THEN view.meal_types ELSE DefaultMealTypes

\* The status options with one of them misspelt
StatusesMisspelt == {"Pending", "Complete", "Cancelled"}

\* The options of the two status select boxes
Statuses == {"Pending", "Completed", "Cancelled"}
TableNames == {"Providers", "Receivers", "Food_Listings", "Claims"}

-----------------------------------------------------------------------------
(* The run of Add Claim in flight between its reads and its write *)
NoRun == [kind |-> "none", food_id |-> 0, recv_id |-> 0]

Init ==
    /\ providers = {}
    /\ receivers = {}
    /\ listings = {}
    /\ claims = {}
    /\ cache = Cleared
    /\ run = NoRun
    /\ msg = ""

-----------------------------------------------------------------------------
(* Tab 3: CRUD *)

\* The script stops at the Add Listing tab when Providers is empty (.iloc[0] of
\* an empty selection), so the tabs after it are reached only with a provider.
ReachesAddListing == providers # {}

\* Add Provider with the contact left out of the test of the fields
AddProviderContactUnchecked(ap_name, ap_type, ap_addr, ap_city, ap_contact) ==
    IF FilledText(ap_name) /\ Filled(ap_type) /\ Filled(ap_addr) /\ FilledText(ap_city)
    THEN /\ NextId(ProviderIds) <= MaxProviders
         /\ providers' = providers \cup
               {[Provider_ID |-> NextId(ProviderIds), Name |-> ap_name, Type |-> ap_type,
                 Address |-> ap_addr, City |-> ap_city, Contact |-> ap_contact]}
         /\ msg' = "Provider added."
         /\ cache' = Cleared
         /\ UNCHANGED <<receivers, listings, claims, run>>
    ELSE /\ msg' = "Please fill all fields."
         /\ cache' = Lookup
         /\ UNCHANGED <<providers, receivers, listings, claims, run>>

AddProvider(ap_name, ap_type, ap_addr, ap_city, ap_contact) ==
    IF FilledText(ap_name) /\ Filled(ap_type) /\ Filled(ap_addr) /\ FilledText(ap_city)
       /\ Filled(ap_contact)
    THEN /\ NextId(ProviderIds) <= MaxProviders
         /\ providers' = providers \cup
               {[Provider_ID |-> NextId(ProviderIds), Name |-> ap_name, Type |-> ap_type,
                 Address |-> ap_addr, City |-> ap_city, Contact |-> ap_contact]}
         /\ msg' = "Provider added."
         /\ cache' = Cleared
         /\ UNCHANGED <<receivers, listings, claims, run>>
    ELSE /\ msg' = "Please fill all fields."
         /\ cache' = Lookup
         /\ UNCHANGED <<providers, receivers, listings, claims, run>>

AddReceiver(ar_name, ar_type, ar_city, ar_contact) ==
    IF FilledText(ar_name) /\ Filled(ar_type) /\ FilledText(ar_city) /\ Filled(ar_contact)
    THEN /\ NextId(ReceiverIds) <= MaxReceivers
         /\ receivers' = receivers \cup
               {[Receiver_ID |-> NextId(ReceiverIds), Name |-> ar_name, Type |-> ar_type,
                 City |-> ar_city, Contact |-> ar_contact]}
         /\ msg' = "Receiver added."
         /\ cache' = Cleared
         /\ UNCHANGED <<providers, listings, claims, run>>
    ELSE /\ msg' = "Please fill all fields."
         /\ cache' = Lookup
         /\ UNCHANGED <<providers, receivers, listings, claims, run>>

\* Add Listing: the provider pick-list, the provider's id and the button.  Of the
\* providers that share the picked name the first in ORDER BY Name is taken, an
\* order SQL leaves open: any of them.
AddListing(provider_pick, al_name, al_qty, al_exp, al_ptype, al_loc, al_ftype, al_mtype) ==
    /\ ReachesAddListing
    /\ provider_pick \in providers
    /\ al_ptype \in ProviderTypeOptions(Lookup)
    /\ al_ftype \in FoodTypeOptions(Lookup)
    /\ al_mtype \in MealTypeOptions(Lookup)
    /\ al_qty >= 1
    /\ IF Filled(al_name) /\ al_qty # 0 /\ Filled(al_ptype) /\ FilledText(al_loc)
          /\ FilledText(al_ftype) /\ FilledText(al_mtype)
       THEN /\ NextId(FoodIds) <= MaxListings
            /\ listings' = listings \cup
                  {[Food_ID |-> NextId(FoodIds), Food_Name |-> al_name, Quantity |-> al_qty,
                    Expiry_Date |-> FormatDate(al_exp),
                    Provider_ID |-> provider_pick.Provider_ID,
                    Provider_Type |-> al_ptype, Location |-> al_loc,
                    Food_Type |-> al_ftype, Meal_Type |-> al_mtype]}
            /\ msg' = "Listing added."
       ELSE /\ msg' = "Please fill all fields."
            /\ UNCHANGED listings
    /\ cache' = Lookup
    /\ UNCHANGED <<providers, receivers, claims, run>>

\* The label of a listing in the Add Claim pick-list: name, quantity and city
Label(f) == <<f.Food_Name, f.Quantity, f.Location>>

\* Add Claim, up to the button: the two pick-lists and the ids picked from them.
\* Of the listings that share a label the first in Food_ID DESC order is taken.
AddClaimPick(food, recv) ==
    /\ run.kind = "none"
    /\ ReachesAddListing
    /\ food \in listings
    /\ recv \in receivers
    /\ run' = [kind |-> "claim",
               food_id |-> SetMax({f.Food_ID : f \in {g \in listings : Label(g) = Label(food)}}),
               recv_id |-> recv.Receiver_ID]
    /\ cache' = Lookup
    /\ UNCHANGED <<providers, receivers, listings, claims, msg>>

\* Add Claim, the button
AddClaim(claim_status, claim_time) ==
    /\ run.kind = "claim"
    /\ claim_status \in Statuses
    /\ NextId(ClaimIds) <= MaxClaims
    /\ claims' = claims \cup
          {[Claim_ID |-> NextId(ClaimIds), Food_ID |-> run.food_id,
            Receiver_ID |-> run.recv_id, Status |-> claim_status,
            Timestamp |-> FormatTimestamp(claim_time)]}
    /\ msg' = "Claim created."
    /\ run' = NoRun
    /\ UNCHANGED <<providers, receivers, listings, cache>>

\* The claims the Update Claim Status tab lists
claims_df ==
    {c \in claims : c.Food_ID \in FoodIds /\ c.Receiver_ID \in ReceiverIds}

\* Update Claim Status with the WHERE clause left out of the UPDATE
UpdateClaimStatusAllRows(upd_id, new_status) ==
    /\ ReachesAddListing
    /\ claims_df # {}
    /\ upd_id >= 1
    /\ new_status \in Statuses
    /\ claims' = {[c EXCEPT !.Status = new_status] : c \in claims}
    /\ msg' = "Status updated."
    /\ cache' = Lookup
    /\ UNCHANGED <<providers, receivers, listings, run>>

UpdateClaimStatus(upd_id, new_status) ==
    /\ ReachesAddListing
    /\ claims_df # {}
    /\ upd_id >= 1
    /\ new_status \in Statuses
    /\ claims' = {IF c.Claim_ID = upd_id THEN [c EXCEPT !.Status = new_status] ELSE c :
                  c \in claims}
    /\ msg' = "Status updated."
    /\ cache' = Lookup
    /\ UNCHANGED <<providers, receivers, listings, run>>

\* f"Deleted from {del_table}."
Deleted(del_table) ==
    CASE del_table = "Providers" -> "Deleted from Providers."
      [] del_table = "Receivers" -> "Deleted from Receivers."
      [] del_table = "Food_Listings" -> "Deleted from Food_Listings."
      [] del_table = "Claims" -> "Deleted from Claims."

DeleteRecord(del_table, del_id) ==
    /\ ReachesAddListing
    /\ del_table \in TableNames
    /\ del_id >= 1
    /\ providers' = IF del_table = "Providers"
                    THEN {p \in providers : p.Provider_ID # del_id} ELSE providers
    /\ receivers' = IF del_table = "Receivers"
                    THEN {r \in receivers : r.Receiver_ID # del_id} ELSE receivers
    /\ listings' = IF del_table = "Food_Listings"
                   THEN {f \in listings : f.Food_ID # del_id} ELSE listings
    /\ claims' = IF del_table = "Claims"
                 THEN {c \in claims : c.Claim_ID # del_id} ELSE claims
    /\ msg' = Deleted(del_table)
    /\ cache' = Lookup
    /\ UNCHANGED run

-----------------------------------------------------------------------------------------------------------------------------------------------------
(* The listings query of the sidebar filters *)

\* One appended predicate: TRIM(LOWER(column)) = TRIM(LOWER(?)), and none for "All"
Predicate(sel, column) == sel = All \/ TRIM(LOWER(column)) = TRIM(LOWER(sel))

\* base_q with the predicates of the set filters: Food_Listings JOIN Providers
base_q(sel_city, sel_provider, sel_food_type, sel_meal_type) ==
    {[Food_ID |-> f.Food_ID, Food_Name |-> f.Food_Name, Quantity |-> f.Quantity,
      Expiry_Date |-> f.Expiry_Date, Provider_ID |-> f.Provider_ID,
      Provider_Name |-> p.Name, Provider_Type |-> f.Provider_Type, City |-> f.Location,
      Food_Type |-> f.Food_Type, Meal_Type |-> f.Meal_Type] :
        <<f, p>> \in {fp \in listings \X providers :
                        /\ fp[1].Provider_ID = fp[2].Provider_ID
                        /\ Predicate(sel_city, fp[1].Location)
                        /\ Predicate(sel_provider, fp[2].Name)
                        /\ Predicate(sel_food_type, fp[1].Food_Type)
                        /\ Predicate(sel_meal_type, fp[1].Meal_Type)}}

\* ORDER BY Expiry_Date ASC: every order of the rows the collation allows (rows
\* of equal Expiry_Date come in an order SQL leaves open)
OrderByExpiry(rows) ==
    {s \in [1..Cardinality(rows) -> rows] :
        /\ \A i, j \in DOMAIN s : i # j => s[i] # s[j]
        /\ \A i \in DOMAIN s : i < Len(s) => TextLeq(s[i].Expiry_Date, s[i + 1].Expiry_Date)}

listings_df(sel_city, sel_provider, sel_food_type, sel_meal_type) ==
    OrderByExpiry(base_q(sel_city, sel_provider, sel_food_type, sel_meal_type))

-----------------------------------------------------------------------------
(* Tab 4: the reports.  NULL is SQL's NULL, None in the data frame. *)
NULL == [null |-> TRUE, v |-> 0]
Value(n) == [null |-> FALSE, v |-> n]

RECURSIVE SumOf(_, _)
SumOf(rows, col) ==
    IF rows = {} THEN 0
    ELSE LET r == CHOOSE r \in rows : TRUE IN r[col] + SumOf(rows \ {r}, col)

\* SQL SUM and AVG of no row are NULL
SUM(rows, col) == IF rows = {} THEN NULL ELSE Value(SumOf(rows, col))

\* Report 4: int(df.iloc[0,0]) of the one row SUM(Quantity) always returns
Report4 ==
    LET total == SUM(listings, "Quantity")
    IN IF total.null
       THEN [raised |-> "TypeError", shown |-> 0]
       ELSE [raised |-> "", shown |-> total.v]

\* Report 6 counting COUNT(DISTINCT Food_Name) in place of COUNT(*)
Report6DistinctNames ==
    {[Food_Type |-> ft,
      Cnt |-> Cardinality({f.Food_Name : f \in {g \in listings : g.Food_Type = ft}})] :
        ft \in {f.Food_Type : f \in listings}}

\* Report 6: SELECT Food_Type, COUNT(*) FROM Food_Listings GROUP BY Food_Type
Report6 ==
    {[Food_Type |-> ft, Cnt |-> Cardinality({f \in listings : f.Food_Type = ft})] :
        ft \in {f.Food_Type : f \in listings}}

\* Report 9: SELECT Status, COUNT(*) FROM Claims GROUP BY Status
Report9 ==
    {[Status |-> st, Cnt |-> Cardinality({c \in claims : c.Status = st})] :
        st \in {c.Status : c \in claims}}

\* julianday(text), in seconds since the first day of 2000 (only differences of
\* it are used): of 'YYYY-MM-DD' and of 'YYYY-MM-DD HH:MM:SS', NULL of any other
\* text
SecondsPerDay == 86400
IsDigit(c) == c >= Zero /\ c <= Zero + 9
RECURSIVE Number(_)
Number(digits) ==
    IF digits = <<>> THEN 0
    ELSE 10 * Number(SubSeq(digits, 1, Len(digits) - 1)) + (digits[Len(digits)] - Zero)
DayNumber(y, m, d) ==
    LET yy == IF m <= 2 THEN y - 1 ELSE y
        mm == IF m <= 2 THEN m + 12 ELSE m
    IN 365 * yy + (yy \div 4) - (yy \div 100) + (yy \div 400)
       + ((153 * (mm - 3) + 2) \div 5) + d
IsDateText(t) ==
    /\ Len(t) >= 10
    /\ \A i \in {1, 2, 3, 4, 6, 7, 9, 10} : IsDigit(t[i])
    /\ t[5] = Hyphen /\ t[8] = Hyphen
IsTimeText(t) ==
    /\ Len(t) = 19
    /\ t[11] = Space /\ t[14] = Colon /\ t[17] = Colon
    /\ \A i \in {12, 13, 15, 16, 18, 19} : IsDigit(t[i])
julianday(t) ==
    IF IsDateText(t) /\ (Len(t) = 10 \/ IsTimeText(t))
    THEN Value(SecondsPerDay * (DayNumber(Number(SubSeq(t, 1, 4)), Number(SubSeq(t, 6, 7)),
                                          Number(SubSeq(t, 9, 10))) - DayNumber(2000, 1, 1))
               + (IF Len(t) = 10 THEN 0
                  ELSE 3600 * Number(SubSeq(t, 12, 13)) + 60 * Number(SubSeq(t, 15, 16))
                       + Number(SubSeq(t, 18, 19))))
    ELSE NULL

\* f"{x:.2f}" of x = num / den (den > 0), in hundredths; a tie goes to the even
Hundredths(num, den) ==
    LET n == 100 * num
        fl == n \div den
        r == n - fl * den
    IN IF 2 * r < den THEN fl
       ELSE IF 2 * r > den THEN fl + 1
       ELSE IF fl % 2 = 0 THEN fl ELSE fl + 1

\* Report 15: AVG(julianday(f.Expiry_Date) - julianday(c.Timestamp)) over Claims
\* JOIN Food_Listings WHERE c.Status = 'Completed'; None is shown as 0.0
Report15Rows ==
    {cf \in claims \X listings :
        /\ cf[1].Food_ID = cf[2].Food_ID
        /\ cf[1].Status = "Completed"
        /\ ~julianday(cf[2].Expiry_Date).null
        /\ ~julianday(cf[1].Timestamp).null}
RECURSIVE SumOfDeltas(_)
SumOfDeltas(rows) ==
    IF rows = {} THEN 0
    ELSE LET cf == CHOOSE cf \in rows : TRUE
         IN julianday(cf[2].Expiry_Date).v - julianday(cf[1].Timestamp).v
            + SumOfDeltas(rows \ {cf})
Report15 ==
    IF Report15Rows = {}
    THEN [rows |-> {}, shown |-> 0]
    ELSE [rows |-> {cf[1] : cf \in Report15Rows},
          shown |-> Hundredths(SumOfDeltas(Report15Rows),
                               SecondsPerDay * Cardinality(Report15Rows))]

\* strftime('%H', text): the hour in two digits, 00 of a text without a time of
\* day, NULL of a text that is no date
strftime_H(t) ==
    IF julianday(t).null THEN NULL
    ELSE IF Len(t) = 10 THEN Value(Pad2(0))
    ELSE Value(Pad2(Number(SubSeq(t, 12, 13))))

\* ORDER BY Hour: NULL before every text, texts in the BINARY collation
HourLeq(a, b) == a.null \/ (~b.null /\ TextLeq(a.v, b.v))

\* Report 13: SELECT strftime('%H', Timestamp) AS Hour, COUNT(Claim_ID) FROM Claims
\* GROUP BY Hour ORDER BY Hour: the rows in their order
Report13Rows ==
    {[Hour |-> h, Claim_Count |-> Cardinality({c \in claims : strftime_H(c.Timestamp) = h})] :
        h \in {strftime_H(c.Timestamp) : c \in claims}}
Report13 ==
    CHOOSE s \in [1..Cardinality(Report13Rows) -> Report13Rows] :
        /\ \A i, j \in DOMAIN s : i # j => s[i] # s[j]
        /\ \A i \in DOMAIN s : i < Len(s) => HourLeq(s[i].Hour, s[i + 1].Hour)

-----
(* Inputs of the forms *)
Pune == <<80, 117, 110, 101>>
Asha == <<65, 115, 104, 97>>
Vegetarian == <<86,101,103,101,116,97,114,105,97,110>>
Vegan == <<86, 101, 103, 97, 110>>
Lunch == <<76, 117, 110, 99, 104>>
Date1 == [y |-> 2026, m |-> 9, d |-> 30]
Date2 == [y |-> 2026, m |-> 10, d |-> 2]

\* The ids typed into the number inputs of Update Claim Status and Delete Record
TypedIds == 1..SetMax({MaxProviders, MaxReceivers, MaxListings, MaxClaims})

\* A filled form and the same form with one field left empty (text_of: the
\* positions of the fields kept as codes)
OneBlank(form, text_of) ==
    {form} \cup {[form EXCEPT ![i] = IF i \in text_of THEN EmptyText ELSE ""] :
                 i \in 1..Len(form)}
ProviderForms(in) ==
    UNION {OneBlank(<<n, "x", "x", c, "x">>, {1, 4}) : n \in in.names, c \in in.cities}
ReceiverForms(in) ==
    UNION {OneBlank(<<n, "x", c, "x">>, {1, 3}) : n \in in.names, c \in in.cities}
ListingForms(in) ==
    UNION {OneBlank(<<"Rice", l>>, {2}) : l \in in.cities}

Step(in) ==
    \/ \E f \in ProviderForms(in) : AddProvider(f[1], f[2], f[3], f[4], f[5])
    \/ \E f \in ReceiverForms(in) : AddReceiver(f[1], f[2], f[3], f[4])
    \/ \E p \in providers, f \in ListingForms(in), q \in in.quantities, e \in in.dates,
          pt \in in.provider_types, ft \in in.food_types, mt \in in.meal_types :
          AddListing(p, f[1], q, e, pt, f[2], ft, mt)
    \/ \E f \in listings, r \in receivers : AddClaimPick(f, r)
    \/ \E s \in in.statuses, t \in in.claim_dates : AddClaim(s, t)
    \/ \E k \in TypedIds, s \in in.statuses : UpdateClaimStatus(k, s)
    \/ \E t \in TableNames, k \in TypedIds : DeleteRecord(t, k)

CrudInputs ==
    [names |-> {Asha}, cities |-> {Pune}, quantities |-> {1}, dates |-> {Date1},
     provider_types |-> {"Restaurant"}, food_types |-> {Vegetarian},
     meal_types |-> {Lunch}, statuses |-> Statuses, claim_dates |-> {Date1}]

\* Listings that differ in their expiry date
OrderInputs ==
    [names |-> {Asha}, cities |-> {Pune}, quantities |-> {1}, dates |-> {Date1, Date2},
     provider_types |-> {"Restaurant"}, food_types |-> {Vegetarian},
     meal_types |-> {Lunch}, statuses |-> {"Pending"}, claim_dates |-> {Date1}]

\* Listings that differ in their food type, claims in their status
ReportInputs ==
    [names |-> {Asha}, cities |-> {Pune}, quantities |-> {1}, dates |-> {Date1},
     provider_types |-> {"Restaurant"}, food_types |-> {Vegetarian, Vegan},
     meal_types |-> {Lunch}, statuses |-> Statuses, claim_dates |-> {Date1}]

Next == Step(CrudInputs)

Spec == Init /\ [][Next]_vars

NextOrder == Step(OrderInputs)
SpecOrder == Init /\ [][NextOrder]_vars

NextReports == Step(ReportInputs)
SpecReports == Init /\ [][NextReports]_vars

-----------------------------------------------------------------------------
(* Referential integrity *)

\* C1: in every reachable state every Food Listing's Provider_ID is the id of a
\* Provider, and every Claim's Food_ID and Receiver_ID are the ids of a Food
\* Listing and of a Receiver (Delete Record never leaves a dangling reference).
ReferentialIntegrity ==
    /\ \A f \in listings : f.Provider_ID \in ProviderIds
    /\ \A c \in claims : c.Food_ID \in FoodIds /\ c.Receiver_ID \in ReceiverIds

\* C2: the lookup of distinct filter values never stays stale after a write: what
\* the next run reads from it is exactly the distinct values now in the database.
LookupNeverStale == Lookup = get_distinct_values

\* C5: creating a Claim whose Food_ID is the id of no Food Listing leaves the
\* Claims table unchanged.
ClaimOfMissingListingRejected ==
    [][\A s \in Statuses, t \in CrudInputs.claim_dates :
          (AddClaim(s, t) /\ run.food_id \notin FoodIds) => claims' = claims]_vars

\* C6: Add Provider, Add Receiver and Add Listing pressed with a required field
\* empty show the error and leave all four tables unchanged; pressed with every
\* field filled they insert exactly one row, into their own table.
OneMoreRow(old, new) == old \subseteq new /\ Cardinality(new) = Cardinality(old) + 1
RequiredFieldsEnforced ==
    [][/\ \A f \in ProviderForms(CrudInputs) :
             AddProvider(f[1], f[2], f[3], f[4], f[5]) =>
                IF f[1] # <<>> /\ f[2] # "" /\ f[3] # "" /\ f[4] # <<>> /\ f[5] # ""
                THEN /\ OneMoreRow(providers, providers')
                     /\ UNCHANGED <<receivers, listings, claims>>
                ELSE msg' = "Please fill all fields." /\ UNCHANGED tables
       /\ \A f \in ReceiverForms(CrudInputs) :
             AddReceiver(f[1], f[2], f[3], f[4]) =>
                IF f[1] # <<>> /\ f[2] # "" /\ f[3] # <<>> /\ f[4] # ""
                THEN /\ OneMoreRow(receivers, receivers')
                     /\ UNCHANGED <<providers, listings, claims>>
                ELSE msg' = "Please fill all fields." /\ UNCHANGED tables
       /\ \A p \in providers, f \in ListingForms(CrudInputs), q \in CrudInputs.quantities,
             e \in CrudInputs.dates, pt \in CrudInputs.provider_types,
             ft \in CrudInputs.food_types, mt \in CrudInputs.meal_types :
             AddListing(p, f[1], q, e, pt, f[2], ft, mt) =>
                IF f[1] # "" /\ f[2] # <<>>
                THEN /\ OneMoreRow(listings, listings')
                     /\ UNCHANGED <<providers, receivers, claims>>
                ELSE msg' = "Please fill all fields." /\ UNCHANGED tables
      ]_vars

\* C6 witness: a press was refused for an empty field after rows had been added
RefusedPress ==
    /\ msg = "Please fill all fields."
    /\ providers # {} /\ receivers # {} /\ listings # {}

-----------------------------------------------------------------------------
(* The listings query *)

\* What the four select boxes may hold: "All", a text that matches a stored one
\* after TRIM and LOWER, and one that matches none
CityChoices == {All, <<32, 112, 117, 110, 101>>, <<71, 111, 97>>}
ProviderChoices == {All, <<97, 115, 104, 97, 32>>}
FoodTypeChoices == {All, Vegetarian, Vegan}
MealTypeChoices == {All, Lunch}

\* The listing's provider carries the chosen name
ProviderNamed(f, sel) ==
    \E p \in providers :
        p.Provider_ID = f.Provider_ID /\ TRIM(LOWER(p.Name)) = TRIM(LOWER(sel))

\* C3: for every choice of the four filters a Food Listing is in the result if
\* and only if it matches every filter that is set (trimmed, lowercased).
FilterExact ==
    \A sc \in CityChoices, sp \in ProviderChoices, sf \in FoodTypeChoices,
       sm \in MealTypeChoices :
        \A f \in listings :
            (f.Food_ID \in {r.Food_ID : r \in base_q(sc, sp, sf, sm)})
            <=> /\ sc = All \/ TRIM(LOWER(f.Location)) = TRIM(LOWER(sc))
                /\ sp = All \/ ProviderNamed(f, sp)
                /\ sf = All \/ TRIM(LOWER(f.Food_Type)) = TRIM(LOWER(sf))
                /\ sm = All \/ TRIM(LOWER(f.Meal_Type)) = TRIM(LOWER(sm))

\* C4: with the four filters unset the result has as many rows as Food_Listings.
UnfilteredReturnsAll ==
    \A s \in listings_df(All, All, All, All) : Len(s) = Cardinality(listings)

\* The date a text denotes: its three numbers between the hyphens
RECURSIVE Fields(_, _)
Fields(t, sep) ==
    IF \A i \in DOMAIN t : t[i] # sep THEN <<t>>
    ELSE LET k == CHOOSE k \in DOMAIN t : t[k] = sep /\ \A i \in 1..(k - 1) : t[i] # sep
         IN <<SubSeq(t, 1, k - 1)>> \o Fields(SubSeq(t, k + 1, Len(t)), sep)
DateOf(t) == [i \in 1..3 |-> Number(Fields(t, Hyphen)[i])]
DateLeq(a, b) ==
    \/ a[1] < b[1]
    \/ a[1] = b[1] /\ a[2] < b[2]
    \/ a[1] = b[1] /\ a[2] = b[2] /\ a[3] <= b[3]

\* C10: for every choice of the filters the rows of the listings result come in
\* ascending order of the date their Expiry_Date denotes.
OrderedByExpiry ==
    \A sc \in CityChoices, sp \in ProviderChoices, sf \in FoodTypeChoices,
       sm \in MealTypeChoices :
        \A s \in listings_df(sc, sp, sf, sm) :
            \A i \in 1..(Len(s) - 1) :
                DateLeq(DateOf(s[i].Expiry_Date), DateOf(s[i + 1].Expiry_Date))

\* C10 witness: the listing added last expires first and heads the result
LaterListingFirst ==
    \E s \in listings_df(All, All, All, All) :
        /\ Len(s) >= 2
        /\ s[1].Food_ID > s[2].Food_ID
        /\ s[1].Expiry_Date # s[2].Expiry_Date

-----------------------------------------------------------------------------
(* The reports *)

\* C8: the counts of report 6 sum to the number of Food_Listings rows and the
\* counts of report 9 to the number of Claims rows.
GroupCountsSumToTotal ==
    /\ SumOf(Report6, "Cnt") = Cardinality(listings)
    /\ SumOf(Report9, "Cnt") = Cardinality(claims)

\* C8 witness: a food type with two listings, and claims of two statuses
GroupsOfSeveralRows ==
    /\ \E r \in Report6 : r.Cnt >= 2
    /\ Cardinality(Report9) >= 2

\* C7: report 4 shows the sum of Quantity over Food_Listings, 0 when there is
\* no listing, and raises no error (in the states whose run reaches the reports).
TotalQuantityShown ==
    ReachesAddListing =>
        /\ Report4.raised = ""
        /\ Report4.shown = SumOf(listings, "Quantity")

\* C9: report 15 is the mean, over exactly the Completed claims, of the days from
\* the claim to the expiry of its listing, and 0.0 when no claim is Completed.
CompletedClaims == {c \in claims : c.Status = "Completed"}
RECURSIVE SumOfDaysLeft(_)
SumOfDaysLeft(cs) ==
    IF cs = {} THEN 0
    ELSE LET c == CHOOSE c \in cs : TRUE
             f == CHOOSE f \in listings : f.Food_ID = c.Food_ID
         IN julianday(f.Expiry_Date).v - julianday(c.Timestamp).v + SumOfDaysLeft(cs \ {c})
MeanOverCompleted ==
    IF CompletedClaims = {}
    THEN Report15.shown = 0
    ELSE /\ Report15.rows = CompletedClaims
         /\ Report15.shown = Hundredths(SumOfDaysLeft(CompletedClaims),
                                        SecondsPerDay * Cardinality(CompletedClaims))

-----------------------------------------------------------------------------
(* Claim status *)

\* C11: in every state reached by Add Claim and Update Claim Status the Status
\* of every Claim is one of Pending, Completed, Cancelled.
StatusEnumerated ==
    \A c \in claims :
        c.Status = "Pending" \/ c.Status = "Completed" \/ c.Status = "Cancelled"

\* C11 witness: a claim stands as Cancelled after Update Claim Status was pressed
StatusSetByUpdate ==
    /\ msg = "Status updated."
    /\ \E c \in claims : c.Status = "Cancelled"

-----------------------------------------------------------------------------
(* Claims by hour *)

\* The labels "00" to "23"
HourLabels == {Pad2(h) : h \in 0..23}

\* C12: every bucket of report 13 is labelled with two digits from "00" to "23"
\* (none with NULL), the labels ascend, and the counts of the buckets together
\* are the number of claims (each claim is in exactly one bucket).
HourBuckets ==
    /\ \A i \in DOMAIN Report13 :
          ~Report13[i].Hour.null /\ Report13[i].Hour.v \in HourLabels
    /\ \A i, j \in DOMAIN Report13 :
          i < j => Number(Report13[i].Hour.v) < Number(Report13[j].Hour.v)
    /\ SumOf({Report13[i] : i \in DOMAIN Report13}, "Claim_Count") = Cardinality(claims)

\* C12 witness: two claims made through Add Claim share one bucket
TwoClaimsInOneBucket ==
    /\ Cardinality(claims) = 2
    /\ \E i \in DOMAIN Report13 : Report13[i].Claim_Count = 2

-----------------------------------------------------------------------------
(* The frame of Update Claim Status *)

\* C13: Update Claim Status with id k and status s changes nothing but the
\* Status of the claim whose Claim_ID is k: that claim keeps its Food_ID,
\* Receiver_ID and Timestamp, every other claim and the three other tables are
\* unchanged, the number of claims is unchanged; with no claim of id k the four
\* tables are unchanged, and "Status updated." is shown all the same.
UpdateChangesOneStatus ==
    [][\A k \in TypedIds, s \in CrudInputs.statuses :
          UpdateClaimStatus(k, s) =>
             /\ UNCHANGED <<providers, receivers, listings>>
             /\ Cardinality(claims') = Cardinality(claims)
             /\ \A c \in claims :
                   IF c.Claim_ID = k
                   THEN \E d \in claims' :
                           /\ d.Claim_ID = k /\ d.Status = s
                           /\ d.Food_ID = c.Food_ID /\ d.Receiver_ID = c.Receiver_ID
                           /\ d.Timestamp = c.Timestamp
                   ELSE c \in claims'
             /\ k \notin ClaimIds => claims' = claims
             /\ msg' = "Status updated."
      ]_vars

\* C13 witness: after Update Claim Status two claims stand with different
\* statuses (one of them was not touched)
OneOfTwoUpdated ==
    /\ msg = "Status updated."
    /\ \E c, d \in claims : c.Claim_ID # d.Claim_ID /\ c.Status # d.Status

====
